---- MODULE Spec2Model ----
(***************************************************************************)
(* Drift removal (data_processing/remove_drift.py) and index compositing   *)
(* (data_processing/calc_index_composite.py, modules/                      *)
(* convenient_universal.py) of the climate-analysis repository.            *)
(*                                                                         *)
(* Arrays are modelled as sequences: a series with a time axis and one     *)
(* (flattened) spatial axis is a sequence over time of sequences over the  *)
(* grid points.  Numbers are integers: float32 rounding is not modelled.   *)
(* A masked-array element is a record [val, mask].                         *)
(***************************************************************************)
EXTENDS Integers, Sequences, FiniteSets

VARIABLES
    args,       \* arguments of a direct call of one function
    result,     \* what that call returned or raised, "pending" before it
    \* calc_index_composite.py, main
    comp_inargs,            \* command line: threshold, seasons
    var_indata,             \* data of the variable, time x grid points
    metric_indata,          \* data of the metric, a time series
    threshold,              \* line 63
    included_indexes,       \* line 65
    excluded_indexes,       \* line 66
    metric_data_included,   \* line 71
    metric_data_excluded,   \* line 72
    composite_mean,         \* line 80
    outdata_list,           \* line 41
    comp_pc,                \* next statement of main
    comp_error,             \* the exception that ended main, "none" without one
    \* remove_drift.py, main
    inargs,             \* command line: var, outfile, annual, no_parent_check, chunk
    data_files,         \* the input files: how many, their time axis, branch time
    coefficient_cube,   \* coefficient data (masked array) and attributes
    sanity_summary,     \* line 185
    time_diff,          \* line 187
    branch_time,        \* line 187
    fnum,               \* index of the file of the current iteration, from 0
    data_cube,          \* line 192
    time_values,        \* line 206
    drift_signal,       \* line 211
    new_cube,           \* line 212
    new_cubelist,       \* line 190
    disk,               \* what iris.save has written, in order
    pc,                 \* next statement of main
    error               \* the exception that ended main

callVars == <<args, result>>

driftVars == <<inargs, data_files, coefficient_cube, sanity_summary, time_diff,
               branch_time, fnum, data_cube, time_values, drift_signal, new_cube,
               new_cubelist, disk, pc, error>>

compVars == <<comp_inargs, var_indata, metric_indata, threshold, included_indexes,
              excluded_indexes, metric_data_included, metric_data_excluded,
              composite_mean, outdata_list, comp_pc, comp_error>>

vars == <<callVars, compVars, driftVars>>

NoError == [type |-> "none", line |-> 0, names |-> {}]

(* the variables of a program that is not run *)
DriftIdle ==
    /\ inargs = [var |-> "", outfile |-> ""]
    /\ data_files = [n |-> 0]
    /\ coefficient_cube = [data |-> <<>>]
    /\ sanity_summary = <<>> /\ time_diff = 0 /\ branch_time = 0 /\ fnum = 0
    /\ data_cube = [name |-> 0] /\ time_values = <<>> /\ drift_signal = <<>>
    /\ new_cube = [name |-> 0] /\ new_cubelist = <<>> /\ disk = <<>>
    /\ pc = "idle" /\ error = NoError

CallIdle == args = [fn |-> "none"] /\ result = [state |-> "none"]

CompIdle ==
    /\ comp_inargs = [threshold |-> "", seasons |-> <<>>]
    /\ var_indata = <<>> /\ metric_indata = <<>> /\ threshold = <<>>
    /\ included_indexes = <<>> /\ excluded_indexes = <<>>
    /\ metric_data_included = <<>> /\ metric_data_excluded = <<>>
    /\ composite_mean = <<>> /\ outdata_list = <<>>
    /\ comp_pc = "idle" /\ comp_error = "none"

-----------------------------------------------------------------------------
(* Bounds of the model *)

MaxT == 3           \* longest time axis of one array
NPoints == 2        \* most grid points on the (flattened) spatial axis
NSteps == 3         \* time steps of a composite sample
MaxFiles == 2       \* most input files of a drift removal
FileSteps == 2      \* time steps of one input file
NGrid == 2          \* most grid points of a composite sample

-----------------------------------------------------------------------------
(* Array helpers *)

Elem(v, m) == [val |-> v, mask |-> m]

RECURSIVE SeqsUpTo(_, _)
SeqsUpTo(S, n) ==
    IF n = 0 THEN {<<>>}
    ELSE LET shorter == SeqsUpTo(S, n - 1)
         IN  shorter \cup {Append(q, x) : q \in {r \in shorter : Len(r) = n - 1}, x \in S}

SeqsOfLen(S, n) == {q \in SeqsUpTo(S, n) : Len(q) = n}

-----------------------------------------------------------------------------
(* remove_drift.py: apply_polynomial                                       *)
(*                                                                         *)
(* coefficient_data is [ndim, data, mask]: data and mask are the four      *)
(* layers a, b, c, d, each a sequence over the grid points (one point when *)
(* ndim = 1, the length-4 uniform vector).                                 *)
(*                                                                         *)
(* numpy.ma arithmetic masks the result wherever an operand is masked; the *)
(* number kept under a masked element is unspecified.  The chunked branch  *)
(* writes into a plain numpy.zeros array, which keeps that number and      *)
(* drops the mask: `under` is that number.                                 *)

(* lines 69 and 71: the intercept a is replaced by the literal 0 *)
PolyWithIntercept(a, b, c, d, t) == a + b * t + c * t * t + d * t * t * t

PolyValue(a, b, c, d, t) == 0 + b * t + c * t * t + d * t * t * t

apply_polynomial(x_data, coefficient_data, chunk, under) ==
    LET npts == Len(coefficient_data.data[1])
        coefficient_dict == [a |-> coefficient_data.data[1],
                             b |-> coefficient_data.data[2],
                             c |-> coefficient_data.data[3],
                             d |-> coefficient_data.data[4]]
        masked(s) == \/ coefficient_data.mask[2][s]
                     \/ coefficient_data.mask[3][s]
                     \/ coefficient_data.mask[4][s]
        value(t, s) == PolyValue(coefficient_dict.a[s], coefficient_dict.b[s],
                                 coefficient_dict.c[s], coefficient_dict.d[s],
                                 x_data[t])
    IN  IF chunk
        THEN IF coefficient_data.ndim = 1
             THEN \* coefficient_dict['b'] is a scalar: shape[-1] of () raises
                  [error |-> "IndexError", value |-> <<>>]
             ELSE [error |-> "none",
                   value |-> [t \in 1..Len(x_data) |-> [s \in 1..npts |->
                                IF masked(s) THEN Elem(under, FALSE)
                                             ELSE Elem(value(t, s), FALSE)]]]
        ELSE [error |-> "none",
              value |-> [t \in 1..Len(x_data) |-> [s \in 1..npts |->
                           IF masked(s) THEN Elem(0, TRUE)
                                        ELSE Elem(value(t, s), FALSE)]]]

(* remove_drift.py main, line 212: new_cube = data_cube - drift_signal *)
SubtractDrift(data, drift) ==
    [t \in 1..Len(data) |-> [s \in 1..Len(data[t]) |->
        IF data[t][s].mask \/ drift[t][s].mask
        THEN Elem(0, TRUE)
        ELSE Elem(data[t][s].val - drift[t][s].val, FALSE)]]

-----------------------------------------------------------------------------
(* remove_drift.py: coefficient_sanity_check                               *)

(* the list of line 106 with one more variable let through *)
SupportedVariablesWithSpeed ==
    {"sea_water_potential_temperature", "sea_water_salinity", "sea_water_speed"}

SupportedVariables == {"sea_water_potential_temperature", "sea_water_salinity"}

var_max(variable) == IF variable = "sea_water_potential_temperature" THEN 330 ELSE 55

var_min(variable) == IF variable = "sea_water_potential_temperature" THEN 250 ELSE 2

(* numpy.sum of a boolean array *)
CountTrue(layer) == Cardinality({s \in 1..Len(layer) : layer[s]})

(* lines 121-122: numpy.ma.where(a_data < var_min, True, False) and its    *)
(* twin; the comparison of a masked element is masked                      *)
crazy_mask_min(a_data, a_mask, variable) ==
    [s \in 1..Len(a_data) |-> Elem(a_data[s] < var_min(variable), a_mask[s])]

crazy_mask_max(a_data, a_mask, variable) ==
    [s \in 1..Len(a_data) |-> Elem(a_data[s] > var_max(variable), a_mask[s])]

(* line 123: numpy.ma.mask_or takes logical_or of the two masked arrays    *)
(* and make_mask fills the masked elements of the outcome with True        *)
mask_or(m1, m2) ==
    [s \in 1..Len(m1) |-> IF m1[s].mask \/ m2[s].mask THEN TRUE
                                                       ELSE m1[s].val \/ m2[s].val]

(* numpy.sum of a masked boolean array: the masked elements do not count;  *)
(* the sum of an array that is masked everywhere is numpy.ma.masked, -1    *)
MaskedSum(m) ==
    IF \A s \in 1..Len(m) : m[s].mask THEN -1
    ELSE Cardinality({s \in 1..Len(m) : ~m[s].mask /\ m[s].val})

(* lines 128-129: the mask of the a layer repeated over the four layers *)
repeat_a_only(new_mask, old_mask) == <<new_mask, old_mask[2], old_mask[3], old_mask[4]>>

repeat4(new_mask, old_mask) == [k \in 1..4 |-> new_mask]

(* The outcome of the call: the error raised ("none" when it returns), the *)
(* mask the coefficient array is left with and the summary (ncrazy,        *)
(* npoints) of the returned string.                                        *)
coefficient_sanity_check(coefficient_data, variable) ==
    IF variable \notin SupportedVariables
    THEN [error |-> "AssertionError", line |-> 106, mask |-> coefficient_data.mask,
          summary |-> <<>>]
    ELSE
    LET nmasked_original == CountTrue(coefficient_data.mask[1])
                            + CountTrue(coefficient_data.mask[2])
                            + CountTrue(coefficient_data.mask[3])
                            + CountTrue(coefficient_data.mask[4])
        a_data == coefficient_data.data[1]
        a_mask == coefficient_data.mask[1]
        cmin == crazy_mask_min(a_data, a_mask, variable)
        cmax == crazy_mask_max(a_data, a_mask, variable)
        new_mask == mask_or(cmin, cmax)
        ncrazy_min == MaskedSum(cmin)
        ncrazy_max == MaskedSum(cmax)
        ncrazy == ncrazy_min + ncrazy_max
        new_mask4 == repeat4(new_mask, coefficient_data.mask)
        nmasked_new == 4 * CountTrue(new_mask)
        npoints == Len(a_data)
    IN  IF ncrazy_min = -1
        THEN \* ncrazy is numpy.ma.masked: "%i" % ncrazy raises before line 136
             [error |-> "MaskError", line |-> 133, mask |-> coefficient_data.mask,
              summary |-> <<>>]
        ELSE IF nmasked_new = ncrazy * 4 + nmasked_original
        THEN [error |-> "none", line |-> 140, mask |-> new_mask4,
              summary |-> <<ncrazy, npoints>>]
        ELSE [error |-> "AssertionError", line |-> 138, mask |-> new_mask4,
              summary |-> <<>>]

-----------------------------------------------------------------------------
(* remove_drift.py: check_start_time *)

check_start_time_inclusive(tvalues, time_start, branch, annual) ==
    LET diff == tvalues[1] - (time_start + branch)
    IN  IF annual
        THEN IF 100 <= diff /\ diff <= 200 THEN "none" ELSE "AssertionError"
        ELSE IF diff >= 0 THEN "none" ELSE "AssertionError"

check_start_time(tvalues, time_start, branch, annual) ==
    LET diff == tvalues[1] - (time_start + branch)
    IN  IF annual
        THEN IF 100 < diff /\ diff < 200 THEN "none" ELSE "AssertionError"
        ELSE IF diff = 0 THEN "none" ELSE "AssertionError"

-----------------------------------------------------------------------------
(* convenient_universal.py: get_threshold, and the arrays that main of     *)
(* calc_index_composite.py builds from it                                  *)

ThresholdStrs == {"5", "90pct"}

(* 'pct' in threshold_str *)
HasPct(threshold_str) == threshold_str \in {"90pct"}

(* float(threshold_str) *)
ParseFloat(threshold_str) == IF threshold_str = "5" THEN 5 ELSE 90

(* line 93 uses re, which the module never imports *)
get_threshold(data, threshold_str) ==
    IF HasPct(threshold_str)
    THEN [error |-> "NameError", value |-> 0]
    ELSE [error |-> "none", value |-> ParseFloat(threshold_str)]

(* numpy.resize(a, (nt, npts)): the flattened a, repeated as often as      *)
(* needed, fills the new shape row by row                                  *)
resize(flat, nt, npts) ==
    [t \in 1..nt |-> [s \in 1..npts |->
        flat[(((t - 1) * npts + (s - 1)) % Len(flat)) + 1]]]

(* line 65 *)
included_or_equal(data, thr) ==
    [t \in 1..Len(data) |-> [s \in 1..Len(data[t]) |-> data[t][s] >= thr[t][s]]]

included(data, thr) ==
    [t \in 1..Len(data) |-> [s \in 1..Len(data[t]) |-> data[t][s] > thr[t][s]]]

(* line 66: numpy.invert *)
invert(indexes) ==
    [t \in 1..Len(indexes) |-> [s \in 1..Len(indexes[t]) |-> ~indexes[t][s]]]

(* numpy.ma.masked_array(data, mask=...): True in the mask hides the element *)
masked_array(data, mask) ==
    [t \in 1..Len(data) |-> [s \in 1..Len(data[t]) |-> Elem(data[t][s], mask[t][s])]]

(* the time steps of grid point s that are not masked *)
Unmasked(marray, s) == {t \in 1..Len(marray) : ~marray[t][s].mask}

RECURSIVE SumOver(_, _, _)
SumOver(marray, s, steps) ==
    IF steps = {} THEN 0
    ELSE LET t == CHOOSE x \in steps : TRUE
         IN  marray[t][s].val + SumOver(marray, s, steps \ {t})

(* line 80: the masked mean along the time axis, kept as sum over count    *)
(* (count 0: the mean is masked)                                           *)
mean_axis0(marray) ==
    [s \in 1..Len(marray[1]) |->
        [sum |-> SumOver(marray, s, Unmasked(marray, s)),
         n |-> Cardinality(Unmasked(marray, s))]]

(* convenient_universal.py get_significance, line 76: stats.ttest_ind      *)
(* converts both arguments with asarray, which drops the masks; the two    *)
(* samples it compares are returned here with the attributes of lines      *)
(* 79-84.  The p-values themselves are not modelled.                       *)
asarray(marray) ==
    [t \in 1..Len(marray) |-> [s \in 1..Len(marray[t]) |-> Elem(marray[t][s].val, FALSE)]]

(* line 77: the warning get_significance prints *)
SignificanceWarning ==
    "WARNING: Significance test did not account for autocorrelation (and is thus overconfident), assumed equal variances and did not handle masks"

(* lines 76-86; history is the text of line 83 with the two sizes filled   *)
(* in                                                                      *)
get_significance(data_included, data_excluded, size_included, size_excluded) ==
    [samples |-> <<asarray(data_included), asarray(data_excluded)>>,
     equal_var |-> TRUE,
     stdout |-> <<SignificanceWarning>>,
     pval_atts |-> [id |-> "p",
                    standard_name |-> "p_value",
                    long_name |-> "Two-tailed p-value",
                    units |-> " ",
                    history |-> <<size_included, size_excluded>>,
                    reference |-> "scipy.stats.ttest_ind(a, b, axis=t, equal_var=False)"]]

-----------------------------------------------------------------------------
(* remove_drift.py: the other helpers of main *)

(* lines 76-84; control_rip is 'r%si%sp%s' of the three control attributes *)
RipString(realization, initialization_method, physics_version) ==
    IF <<realization, initialization_method, physics_version>> = <<1, 1, 1>> THEN "r1i1p1"
    ELSE IF <<realization, initialization_method, physics_version>> = <<2, 1, 1>> THEN "r2i1p1"
    ELSE "r?i?p?"

(* check_attributes without its second assertion (lines 81-84) *)
check_attributes_id_only(data_attrs, control_attrs) ==
    IF data_attrs.parent_experiment_id \notin {control_attrs.experiment_id, "N/A"}
    THEN [type |-> "AssertionError", line |-> 79, names |-> {}]
    ELSE NoError

check_attributes(data_attrs, control_attrs) ==
    LET control_rip == RipString(control_attrs.realization,
                                 control_attrs.initialization_method,
                                 control_attrs.physics_version)
    IN  IF data_attrs.parent_experiment_id \notin {control_attrs.experiment_id, "N/A"}
        THEN [type |-> "AssertionError", line |-> 79, names |-> {}]
        ELSE IF data_attrs.parent_experiment_rip \notin {control_rip, "N/A"}
        THEN [type |-> "AssertionError", line |-> 84, names |-> {}]
        ELSE NoError

(* check_data_units without its assertion (line 93) *)
check_data_units_unchecked(cube, coef_cube) == NoError

(* lines 87-95 *)
check_data_units(cube, coef_cube) ==
    IF cube.units = coef_cube.units THEN NoError
    ELSE [type |-> "AssertionError", line |-> 93, names |-> {}]

(* cf_units conversion of a time axis to the unit of the coefficients      *)
(* (lines 151-152, 204): the two reference dates lie epoch units apart     *)
convert_units(points, epoch) == [t \in 1..Len(points) |-> points[t] + epoch]

(* time_adjustment as its docstring-era form: time_start not subtracted *)
time_adjustment_without_start(first_data_cube, coef_cube) ==
    [time_diff |-> convert_units(first_data_cube.points, first_data_cube.epoch)[1]
                     - first_data_cube.attributes.branch_time,
     branch_time |-> first_data_cube.attributes.branch_time]

(* lines 143-157 *)
time_adjustment(first_data_cube, coef_cube) ==
    LET branch_time_value == first_data_cube.attributes.branch_time
        first_experiment_time == convert_units(first_data_cube.points,
                                               first_data_cube.epoch)[1]
    IN  [time_diff |-> first_experiment_time - branch_time_value
                         - coef_cube.attributes.time_start,
         branch_time |-> branch_time_value]

(* timeseries.convert_to_annual (line 199): one annual step stands for the *)
(* steps of the file, its time placed shift units after the first one      *)
convert_to_annual(cube, shift) ==
    [cube EXCEPT !.points = <<cube.points[1] + shift>>, !.data = <<cube.data[1]>>]

(* line 200: data_cube.data.astype(numpy.float32) *)
astype_float32(cube) == [cube EXCEPT !.dtype = "float32"]

(* the dtype of data_cube - drift_signal (line 212) for a float32 drift    *)
(* signal: the coefficients are taken to be float32                        *)
result_dtype(cube_dtype) == IF cube_dtype = "float64" THEN "float64" ELSE "float32"

(* lines 216-220: the two endings of inargs.outfile that main accepts *)
Outfiles == {"drift/out.nc", "drift/", "drift/out"}

EndsWithNc(outfile) == outfile = "drift/out.nc"

EndsWithSlash(outfile) == outfile = "drift/"

(* line 239: CubeList.concatenate_cube along the time axis *)
RECURSIVE concatenate_cube(_)
concatenate_cube(cubelist) ==
    IF Len(cubelist) = 1 THEN cubelist[1]
    ELSE LET rest == concatenate_cube(Tail(cubelist))
         IN  [cubelist[1] EXCEPT !.points = cubelist[1].points \o rest.points,
                                 !.data = cubelist[1].data \o rest.data]

-----------------------------------------------------------------------------
(* Direct calls of apply_polynomial, followed by the subtraction of main.  *)

XVals == {0, 10, 20}

CoefPoints == {<<300, 1, 0, 0>>, <<7, 0, 1, 0>>, <<300, 2, 0, 1>>}

UnderMask == {0, 1}

(* the coefficient array whose point s holds the tuple pts[s], masked in   *)
(* all four layers where msk[s]                                            *)
CoefArray(nd, pts, msk) ==
    [ndim |-> nd,
     data |-> [k \in 1..4 |-> [s \in 1..Len(pts) |-> pts[s][k]]],
     mask |-> [k \in 1..4 |-> [s \in 1..Len(pts) |-> msk[s]]]]

PolyCoefs ==
    {CoefArray(1, <<p>>, <<m>>) : p \in CoefPoints, m \in BOOLEAN}
    \cup UNION {{CoefArray(2, pts, msk) : pts \in SeqsOfLen(CoefPoints, n),
                                          msk \in SeqsOfLen(BOOLEAN, n)}
                : n \in 1..NPoints}

(* raw data of a call: 300 + 11 per step at every grid point *)
RawData(nt, npts) == [t \in 1..nt |-> [s \in 1..npts |-> Elem(300 + 11 * (t - 1), FALSE)]]

InitPolynomial ==
    /\ args \in {[fn |-> "apply_polynomial", x_data |-> x, coefficient_data |-> cf,
                  chunk |-> ch]
                 : x \in SeqsUpTo(XVals, MaxT) \ {<<>>}, cf \in PolyCoefs, ch \in BOOLEAN}
    /\ result = [state |-> "pending"]
    /\ CompIdle
    /\ DriftIdle

CallApplyPolynomial ==
    /\ result.state = "pending"
    /\ \E under \in UnderMask :
         LET r == apply_polynomial(args.x_data, args.coefficient_data, args.chunk, under)
         IN  result' = [state |-> IF r.error = "none" THEN "returned" ELSE "raised",
                        error |-> r.error, drift_signal |-> r.value]
    /\ UNCHANGED <<args, compVars, driftVars>>

CallSubtract ==
    /\ result.state = "returned"
    /\ result' = [state |-> "subtracted", error |-> "none",
                  drift_signal |-> result.drift_signal,
                  new_cube |-> SubtractDrift(
                      RawData(Len(args.x_data), Len(args.coefficient_data.data[1])),
                      result.drift_signal)]
    /\ UNCHANGED <<args, compVars, driftVars>>

NextPolynomial == CallApplyPolynomial \/ CallSubtract

SpecPolynomial == InitPolynomial /\ [][NextPolynomial]_vars

(* C1: wherever the coefficients of a grid point are not masked, the drift *)
(* value returned for time offset t is exactly b*t + c*t^2 + d*t^3, the    *)
(* intercept a taking no part; with uniform coefficients (300, 1, 0, 0)    *)
(* and offsets [0, 10, 20] the drift is [0, 10, 20] and raw [300, 311,     *)
(* 322] is corrected to [300, 301, 302].                                   *)
C1_Scenario ==
    /\ args.x_data = <<0, 10, 20>>
    /\ args.coefficient_data = CoefArray(1, <<(<<300, 1, 0, 0>>)>>, <<FALSE>>)
    /\ ~args.chunk

C1_DriftExcludesIntercept ==
    /\ result.state \in {"returned", "subtracted"} =>
         \A t \in 1..Len(args.x_data) : \A s \in 1..Len(args.coefficient_data.data[1]) :
            LET cf == args.coefficient_data
                x == args.x_data[t]
            IN  ~(cf.mask[2][s] \/ cf.mask[3][s] \/ cf.mask[4][s]) =>
                   result.drift_signal[t][s] =
                      Elem(cf.data[2][s] * x + cf.data[3][s] * x * x
                             + cf.data[4][s] * x * x * x, FALSE)
    /\ (C1_Scenario /\ result.state \in {"returned", "subtracted"}) =>
         result.drift_signal = <<(<<Elem(0, FALSE)>>), (<<Elem(10, FALSE)>>),
                                 (<<Elem(20, FALSE)>>)>>
    /\ (C1_Scenario /\ result.state = "subtracted") =>
         result.new_cube = <<(<<Elem(300, FALSE)>>), (<<Elem(301, FALSE)>>),
                             (<<Elem(302, FALSE)>>)>>

C1_Witness == C1_Scenario /\ result.state = "subtracted"

(* C2: whatever the coefficient shape, chunked evaluation completes and    *)
(* returns exactly what unchunked evaluation returns.                      *)
C2_ChunkedEqualsUnchunked ==
    (args.chunk /\ result.state # "pending") =>
        /\ result.error = "none"
        /\ result.drift_signal =
              apply_polynomial(args.x_data, args.coefficient_data, FALSE, 0).value

-----------------------------------------------------------------------------
(* Direct calls of coefficient_sanity_check *)

Variables == SupportedVariables \cup {"sea_water_speed"}

AVals(variable) ==
    IF variable = "sea_water_potential_temperature" THEN {249, 250, 330, 331}
    ELSE IF variable = "sea_water_salinity" THEN {1, 2, 55, 56}
    ELSE {300}

(* the masks of one grid point over the layers a, b, c, d *)
PointMasks == {<<FALSE, FALSE, FALSE, FALSE>>, <<TRUE, TRUE, TRUE, TRUE>>,
               <<TRUE, FALSE, FALSE, FALSE>>, <<FALSE, TRUE, FALSE, FALSE>>,
               <<FALSE, TRUE, TRUE, TRUE>>}

(* the coefficient array with a = as[s], b = 1, c = d = 0 and the masks    *)
(* pm[s] at grid point s                                                   *)
SanityArray(nd, as, pm) ==
    [ndim |-> nd,
     data |-> <<as, [s \in 1..Len(as) |-> 1], [s \in 1..Len(as) |-> 0],
                [s \in 1..Len(as) |-> 0]>>,
     mask |-> [k \in 1..4 |-> [s \in 1..Len(as) |-> pm[s][k]]]]

SanityCoefs(variable) ==
    {SanityArray(1, <<a>>, <<m>>) : a \in AVals(variable), m \in PointMasks}
    \cup UNION {{SanityArray(2, as, pm) : as \in SeqsOfLen(AVals(variable), n),
                                          pm \in SeqsOfLen(PointMasks, n)}
                : n \in 1..NPoints}

InitSanity ==
    /\ \E v \in Variables :
         args \in {[fn |-> "coefficient_sanity_check", coefficient_data |-> cf,
                    variable |-> v] : cf \in SanityCoefs(v)}
    /\ result = [state |-> "pending"]
    /\ CompIdle
    /\ DriftIdle

CallSanityCheck ==
    /\ result.state = "pending"
    /\ LET r == coefficient_sanity_check(args.coefficient_data, args.variable)
       IN  result' = [state |-> IF r.error = "none" THEN "returned" ELSE "raised",
                      error |-> r.error, line |-> r.line, mask |-> r.mask,
                      summary |-> r.summary]
    /\ UNCHANGED <<args, compVars, driftVars>>

NextSanity == CallSanityCheck

SpecSanity == InitSanity /\ [][NextSanity]_vars

OutOfRange(a, variable) == a < var_min(variable) \/ a > var_max(variable)

(* C3: once the validator has set the mask (line 136), every grid point    *)
(* whose a lies outside [min, max] is masked in all four coefficients, and *)
(* an unmasked a in [min, max], the ends included, stays unmasked.         *)
C3_OutOfRangeMaskedInAllFour ==
    (result.state # "pending" /\ result.line \in {138, 140}) =>
        \A s \in 1..Len(args.coefficient_data.data[1]) :
            LET a == args.coefficient_data.data[1][s]
            IN  /\ OutOfRange(a, args.variable) =>
                       \A k \in 1..4 : result.mask[k][s]
                /\ (~OutOfRange(a, args.variable)
                       /\ ~args.coefficient_data.mask[1][s]) => ~result.mask[1][s]

C3_Witness ==
    /\ result.state = "returned"
    /\ \E s \in 1..Len(args.coefficient_data.data[1]) :
          /\ OutOfRange(args.coefficient_data.data[1][s], args.variable)
          /\ \A k \in 1..4 : ~args.coefficient_data.mask[k][s]
          /\ \A k \in 1..4 : result.mask[k][s]
    /\ \E s \in 1..Len(args.coefficient_data.data[1]) :
          /\ args.coefficient_data.data[1][s] = var_min(args.variable)
          /\ ~result.mask[1][s]

(* C4: for every coefficient array of a supported variable, whatever its   *)
(* initial mask, validation returns and the number of masked elements      *)
(* after it is the number before plus 4 times the number of out-of-range   *)
(* points.                                                                 *)
TotalMasked(mask) ==
    CountTrue(mask[1]) + CountTrue(mask[2]) + CountTrue(mask[3]) + CountTrue(mask[4])

C4_CountCheckNeverAborts ==
    (result.state # "pending" /\ args.variable \in SupportedVariables) =>
        /\ result.state = "returned"
        /\ TotalMasked(result.mask) =
              TotalMasked(args.coefficient_data.mask)
              + 4 * Cardinality({s \in 1..Len(args.coefficient_data.data[1]) :
                      /\ ~args.coefficient_data.mask[1][s]
                      /\ OutOfRange(args.coefficient_data.data[1][s], args.variable)})

-----------------------------------------------------------------------------
(* Direct calls of check_start_time *)

FirstTimes == {0, 50, 99, 100, 101, 150, 199, 200, 201, 250}

Offsets == {0, 50}

InitStartTime ==
    /\ args \in {[fn |-> "check_start_time", time_values |-> <<t0, t0 + 10>>,
                  time_start |-> ts, branch_time |-> bt, annual |-> an]
                 : t0 \in FirstTimes, ts \in Offsets, bt \in Offsets, an \in BOOLEAN}
    /\ result = [state |-> "pending"]
    /\ CompIdle
    /\ DriftIdle

CallCheckStartTime ==
    /\ result.state = "pending"
    /\ LET e == check_start_time(args.time_values, args.time_start, args.branch_time,
                                 args.annual)
       IN  result' = [state |-> IF e = "none" THEN "returned" ELSE "raised", error |-> e]
    /\ UNCHANGED <<args, compVars, driftVars>>

NextStartTime == CallCheckStartTime

SpecStartTime == InitStartTime /\ [][NextStartTime]_vars

(* C10: the alignment check passes in monthly mode only when the first     *)
(* adjusted time value equals time_start + branch_time, and in annual mode *)
(* only when it exceeds that epoch by more than 100 and less than 200 (150 *)
(* past epoch 0 passes; 50, 100 and 200 fail); every other call raises the *)
(* assertion error.                                                        *)
C10_Past == args.time_values[1] - (args.time_start + args.branch_time)

-----------------------------------------------------------------------------
(* calc_index_composite.py: main.  The files hold the variable with time   *)
(* as its first axis (the assertion of line 61).                           *)

SampleVals == {5, 6}

Seasons == {<<>>, <<"annual">>, <<"DJF", "annual">>}

(* the samples with nt time steps and npts grid points *)
Samples(nt, npts) == SeqsOfLen(SeqsOfLen(SampleVals, npts), nt)

Metrics(nt) == {[t \in 1..nt |-> 10 * t], [t \in 1..nt |-> 7 - t]}

InitComposite ==
    /\ CallIdle
    /\ DriftIdle
    /\ comp_inargs \in {[threshold |-> th, seasons |-> ss]
                        : th \in ThresholdStrs, ss \in Seasons}
    /\ var_indata = <<>> /\ metric_indata = <<>> /\ threshold = <<>>
    /\ included_indexes = <<>> /\ excluded_indexes = <<>>
    /\ metric_data_included = <<>> /\ metric_data_excluded = <<>>
    /\ composite_mean = <<>> /\ outdata_list = <<>>
    /\ comp_pc = "season" /\ comp_error = "none"

(* lines 50-56: the first season's data are read *)
LoadSeason ==
    /\ comp_pc = "season"
    /\ comp_inargs.seasons # <<>>
    /\ \E npts \in 1..NGrid :
         /\ var_indata' \in Samples(NSteps, npts)
         /\ metric_indata' \in Metrics(NSteps)
    /\ comp_pc' = "threshold"
    /\ UNCHANGED <<callVars, driftVars, comp_inargs, threshold, included_indexes, excluded_indexes,
                   metric_data_included, metric_data_excluded, composite_mean,
                   outdata_list, comp_error>>

(* line 102 without any season: var_indata is not defined *)
NoSeason ==
    /\ comp_pc = "season"
    /\ comp_inargs.seasons = <<>>
    /\ comp_pc' = "raised"
    /\ comp_error' = "NameError"
    /\ UNCHANGED <<callVars, driftVars, comp_inargs, var_indata, metric_indata, threshold,
                   included_indexes, excluded_indexes, metric_data_included,
                   metric_data_excluded, composite_mean, outdata_list>>

(* lines 60-63 *)
GetThreshold ==
    /\ comp_pc = "threshold"
    /\ LET th == get_threshold(var_indata, comp_inargs.threshold)
       IN  IF th.error = "none"
           THEN /\ threshold' = resize(<<th.value>>, Len(var_indata), Len(var_indata[1]))
                /\ comp_pc' = "partition"
                /\ UNCHANGED comp_error
           ELSE /\ comp_pc' = "raised"
                /\ comp_error' = th.error
                /\ UNCHANGED threshold
    /\ UNCHANGED <<callVars, driftVars, comp_inargs, var_indata, metric_indata, included_indexes,
                   excluded_indexes, metric_data_included, metric_data_excluded,
                   composite_mean, outdata_list>>

(* lines 65-66 *)
Partition ==
    /\ comp_pc = "partition"
    /\ included_indexes' = included(var_indata, threshold)
    /\ excluded_indexes' = invert(included(var_indata, threshold))
    /\ comp_pc' = "mask"
    /\ UNCHANGED <<callVars, driftVars, comp_inargs, var_indata, metric_indata, threshold,
                   metric_data_included, metric_data_excluded, composite_mean,
                   outdata_list, comp_error>>

(* lines 70-72 *)
MaskMetric ==
    /\ comp_pc = "mask"
    /\ LET metric_data == resize(metric_indata, Len(var_indata), Len(var_indata[1]))
       IN  /\ metric_data_included' = masked_array(metric_data, included_indexes)
           /\ metric_data_excluded' = masked_array(metric_data, excluded_indexes)
    /\ comp_pc' = "mean"
    /\ UNCHANGED <<callVars, driftVars, comp_inargs, var_indata, metric_indata, threshold,
                   included_indexes, excluded_indexes, composite_mean, outdata_list,
                   comp_error>>

(* lines 80-86 *)
CompositeMean ==
    /\ comp_pc = "mean"
    /\ composite_mean' = mean_axis0(metric_data_included)
    /\ comp_pc' = "append"
    /\ UNCHANGED <<callVars, driftVars, comp_inargs, var_indata, metric_indata, threshold,
                   included_indexes, excluded_indexes, metric_data_included,
                   metric_data_excluded, outdata_list, comp_error>>

(* line 88: outdata_list.append(composite), and no composite is defined *)
AppendComposite ==
    /\ comp_pc = "append"
    /\ comp_pc' = "raised"
    /\ comp_error' = "NameError"
    /\ UNCHANGED <<callVars, driftVars, comp_inargs, var_indata, metric_indata, threshold,
                   included_indexes, excluded_indexes, metric_data_included,
                   metric_data_excluded, composite_mean, outdata_list>>

NextComposite ==
    \/ LoadSeason
    \/ NoSeason
    \/ GetThreshold
    \/ Partition
    \/ MaskMetric
    \/ CompositeMean
    \/ AppendComposite

SpecComposite == InitComposite /\ [][NextComposite]_vars

(* the mean sum/n equals the mean of the values vals (both masked when     *)
(* there is no value)                                                      *)
IncludedSteps(s) == {t \in 1..Len(var_indata) : var_indata[t][s] > ParseFloat(comp_inargs.threshold)}

MetricAt(t, s) == metric_indata[t]

RECURSIVE MetricSum(_, _)
MetricSum(s, steps) ==
    IF steps = {} THEN 0
    ELSE LET t == CHOOSE x \in steps : TRUE
         IN  MetricAt(t, s) + MetricSum(s, steps \ {t})

(* C5: the composite of a grid point is the mean of the metric over        *)
(* exactly the included time steps (sample above the threshold).           *)
C5_CompositeIsMeanOfIncluded ==
    comp_pc \in {"append", "raised"} /\ composite_mean # <<>> =>
        \A s \in 1..Len(composite_mean) :
            LET n == Cardinality(IncludedSteps(s))
            IN  /\ (n = 0) = (composite_mean[s].n = 0)
                /\ composite_mean[s].sum * n = MetricSum(s, IncludedSteps(s)) * composite_mean[s].n

(* C7: after the partition, included is sample > threshold and excluded    *)
(* is its complement: every element is in exactly one of the two masks.    *)
C7_PartitionComplementary ==
    comp_pc \in {"mask", "mean", "append"} =>
        /\ Len(included_indexes) = Len(var_indata)
        /\ Len(excluded_indexes) = Len(var_indata)
        /\ \A t \in 1..Len(var_indata) :
              /\ Len(included_indexes[t]) = Len(var_indata[t])
              /\ Len(excluded_indexes[t]) = Len(var_indata[t])
              /\ \A s \in 1..Len(var_indata[t]) :
                    /\ included_indexes[t][s] = (var_indata[t][s] > threshold[t][s])
                    /\ included_indexes[t][s] # excluded_indexes[t][s]

C7_Witness ==
    /\ comp_pc = "mask"
    /\ \E t \in 1..Len(var_indata) : \E s \in 1..Len(var_indata[t]) :
          included_indexes[t][s] /\ ~excluded_indexes[t][s]
    /\ \E t \in 1..Len(var_indata) : \E s \in 1..Len(var_indata[t]) :
          /\ var_indata[t][s] = threshold[t][s]
          /\ excluded_indexes[t][s] /\ ~included_indexes[t][s]

-----------------------------------------------------------------------------
(* Direct calls of get_significance with the arrays main builds (lines     *)
(* 65-72) and the sizes of the two samples.                                *)

SignificanceArgs(sample, metric, th) ==
    LET thr == resize(<<ParseFloat(th)>>, Len(sample), Len(sample[1]))
        inc == included(sample, thr)
        exc == invert(inc)
        metric_data == resize(metric, Len(sample), Len(sample[1]))
    IN  [fn |-> "get_significance",
         included_indexes |-> inc,
         data_included |-> masked_array(metric_data, inc),
         data_excluded |-> masked_array(metric_data, exc),
         size_included |-> Cardinality({t \in 1..Len(sample) : inc[t][1]}),
         size_excluded |-> Cardinality({t \in 1..Len(sample) : exc[t][1]})]

InitSignificance ==
    /\ args \in {SignificanceArgs(sample, metric, "5")
                 : sample \in UNION {Samples(NSteps, npts) : npts \in 1..NGrid},
                   metric \in Metrics(NSteps)}
    /\ result = [state |-> "pending"]
    /\ CompIdle
    /\ DriftIdle

CallGetSignificance ==
    /\ result.state = "pending"
    /\ LET r == get_significance(args.data_included, args.data_excluded,
                                 args.size_included, args.size_excluded)
       IN  result' = [state |-> "returned", samples |-> r.samples,
                      equal_var |-> r.equal_var, stdout |-> r.stdout,
                      pval_atts |-> r.pval_atts]
    /\ UNCHANGED <<args, compVars, driftVars>>

NextSignificance == CallGetSignificance

SpecSignificance == InitSignificance /\ [][NextSignificance]_vars

(* C6: the two samples the test compares are disjoint: at every grid point *)
(* the first holds exactly the included time steps and the second exactly  *)
(* the excluded ones.                                                      *)
C6_SamplesDisjoint ==
    result.state = "returned" =>
        \A s \in 1..Len(args.included_indexes[1]) :
            LET inc == {t \in 1..Len(args.included_indexes) : args.included_indexes[t][s]}
                first == Unmasked(result.samples[1], s)
                second == Unmasked(result.samples[2], s)
            IN  /\ first = inc
                /\ second = (1..Len(args.included_indexes)) \ inc
                /\ first \cap second = {}

-----------------------------------------------------------------------------
(* remove_drift.py: main.  The input files are chronological: file k holds *)
(* FileSteps steps, 10 time units apart, that follow those of file k - 1.  *)

ControlAttributes(ts) ==
    [experiment_id |-> "piControl", realization |-> 1, initialization_method |-> 1,
     physics_version |-> 1, time_start |-> ts]

(* the coefficient arrays of a run: uniform and in range; one grid point   *)
(* in range and the others out of range; b alone masked at the first point *)
DriftCoefs(variable) ==
    LET ok == IF variable = "sea_water_salinity" THEN 35 ELSE 300
        crazy == IF variable = "sea_water_salinity" THEN 60 ELSE 400
        unmasked == [s \in 1..NPoints |-> FALSE]
        spatial == [ndim |-> 2,
                    data |-> <<[s \in 1..NPoints |-> IF s = 1 THEN ok ELSE crazy],
                               [s \in 1..NPoints |-> s], [s \in 1..NPoints |-> 0],
                               [s \in 1..NPoints |-> 1]>>,
                    mask |-> <<unmasked, unmasked, unmasked, unmasked>>]
    IN  {CoefArray(1, <<(<<ok, 1, 0, 0>>)>>, <<FALSE>>),
         spatial,
         [spatial EXCEPT !.mask[2][1] = TRUE]}

FilePoints(k) == [t \in 1..FileSteps |-> 100 + ((k - 1) * FileSteps + (t - 1)) * 10]

FileData(k, npts) ==
    [t \in 1..FileSteps |-> [s \in 1..npts |->
        Elem(300 + 11 * ((k - 1) * FileSteps + (t - 1)) + s, FALSE)]]

AnnualShifts == {50, 150}

(* the parent attributes of an input file *)
ParentAttributes ==
    {[parent_experiment_id |-> "piControl", parent_experiment_rip |-> "r1i1p1"],
     [parent_experiment_id |-> "N/A", parent_experiment_rip |-> "N/A"],
     [parent_experiment_id |-> "historical", parent_experiment_rip |-> "r1i1p1"],
     [parent_experiment_id |-> "piControl", parent_experiment_rip |-> "r2i1p1"]}

Init ==
    /\ CallIdle
    /\ CompIdle
    /\ inargs \in {[var |-> v, outfile |-> o, annual |-> an, no_parent_check |-> np,
                    chunk |-> ch]
                   : v \in Variables, o \in Outfiles, an \in BOOLEAN, np \in BOOLEAN,
                     ch \in BOOLEAN}
    /\ data_files \in {[n |-> n, epoch |-> ep, branch_time |-> bt]
                       : n \in 1..MaxFiles, ep \in {0, 1000}, bt \in Offsets}
    /\ coefficient_cube \in {[data |-> cf, units |-> "K",
                               attributes |-> ControlAttributes(ts)]
                              : cf \in DriftCoefs(inargs.var), ts \in Offsets}
    /\ sanity_summary = <<>> /\ time_diff = 0 /\ branch_time = 0 /\ fnum = 0
    /\ data_cube = [name |-> 0] /\ time_values = <<>> /\ drift_signal = <<>>
    /\ new_cube = [name |-> 0] /\ new_cubelist = <<>> /\ disk = <<>>
    /\ pc = "sanity" /\ error = NoError

Raise(e) == pc' = "raised" /\ error' = e

(* lines 183-185 *)
SanityCheck ==
    /\ pc = "sanity"
    /\ LET r == coefficient_sanity_check(coefficient_cube.data, inargs.var)
       IN  /\ coefficient_cube' = [coefficient_cube EXCEPT !.data.mask = r.mask]
           /\ IF r.error = "none"
              THEN /\ sanity_summary' = r.summary
                   /\ pc' = "time_adjustment"
                   /\ UNCHANGED error
              ELSE /\ Raise([type |-> r.error, line |-> r.line, names |-> {}])
                   /\ UNCHANGED sanity_summary
    /\ UNCHANGED <<callVars, compVars, inargs, data_files, time_diff, branch_time, fnum,
                   data_cube, time_values, drift_signal, new_cube, new_cubelist, disk>>

(* lines 187-190 *)
TimeAdjustment ==
    /\ pc = "time_adjustment"
    /\ LET first_data_cube == [points |-> FilePoints(1), epoch |-> data_files.epoch,
                               attributes |-> [branch_time |-> data_files.branch_time]]
           r == time_adjustment(first_data_cube, coefficient_cube)
       IN  time_diff' = r.time_diff /\ branch_time' = r.branch_time
    /\ new_cubelist' = <<>>
    /\ pc' = "load"
    /\ UNCHANGED <<callVars, compVars, inargs, data_files, coefficient_cube,
                   sanity_summary, fnum, data_cube, time_values, drift_signal, new_cube,
                   disk, error>>

(* lines 191-192: the next file is read *)
LoadFile ==
    /\ pc = "load"
    /\ fnum < data_files.n
    /\ \E u \in {"K", "degC"}, parent \in ParentAttributes, dt \in {"float32", "float64"} :
         data_cube' = [name |-> fnum + 1,
                       points |-> FilePoints(fnum + 1),
                       data |-> FileData(fnum + 1, Len(coefficient_cube.data.data[1])),
                       dtype |-> dt,
                       units |-> u,
                       attributes |-> parent]
    /\ pc' = "check_units"
    /\ UNCHANGED <<callVars, compVars, inargs, data_files, coefficient_cube,
                   sanity_summary, time_diff, branch_time, fnum, time_values,
                   drift_signal, new_cube, new_cubelist, disk, error>>

(* line 193 *)
CheckDataUnits ==
    /\ pc = "check_units"
    /\ LET e == check_data_units(data_cube, coefficient_cube)
       IN  IF e = NoError THEN pc' = "check_parent" /\ UNCHANGED error ELSE Raise(e)
    /\ UNCHANGED <<callVars, compVars, inargs, data_files, coefficient_cube,
                   sanity_summary, time_diff, branch_time, fnum, data_cube, time_values,
                   drift_signal, new_cube, new_cubelist, disk>>

(* lines 195-196 *)
CheckAttributes ==
    /\ pc = "check_parent"
    /\ LET e == IF inargs.no_parent_check THEN NoError
                ELSE check_attributes(data_cube.attributes, coefficient_cube.attributes)
       IN  IF e = NoError THEN pc' = "annual" /\ UNCHANGED error ELSE Raise(e)
    /\ UNCHANGED <<callVars, compVars, inargs, data_files, coefficient_cube,
                   sanity_summary, time_diff, branch_time, fnum, data_cube, time_values,
                   drift_signal, new_cube, new_cubelist, disk>>

(* lines 198-200 *)
ConvertToAnnual ==
    /\ pc = "annual"
    /\ IF inargs.annual
       THEN \E shift \in AnnualShifts :
                data_cube' = astype_float32(convert_to_annual(data_cube, shift))
       ELSE UNCHANGED data_cube
    /\ pc' = "sync"
    /\ UNCHANGED <<callVars, compVars, inargs, data_files, coefficient_cube,
                   sanity_summary, time_diff, branch_time, fnum, time_values,
                   drift_signal, new_cube, new_cubelist, disk, error>>

(* lines 203-208 *)
SyncTime ==
    /\ pc = "sync"
    /\ LET converted == convert_units(data_cube.points, data_files.epoch)
           values == [t \in 1..Len(converted) |-> converted[t] - time_diff]
           e == IF fnum = 0
                THEN check_start_time(values, coefficient_cube.attributes.time_start,
                                      branch_time, inargs.annual)
                ELSE "none"
       IN  /\ time_values' = values
           /\ IF e = "none" THEN pc' = "drift" /\ UNCHANGED error
              ELSE Raise([type |-> e, line |-> IF inargs.annual THEN 175 ELSE 177,
                          names |-> {}])
    /\ UNCHANGED <<callVars, compVars, inargs, data_files, coefficient_cube,
                   sanity_summary, time_diff, branch_time, fnum, data_cube,
                   drift_signal, new_cube, new_cubelist, disk>>

(* lines 210-216 *)
RemoveDrift ==
    /\ pc = "drift"
    /\ \E under \in UnderMask :
         LET r == apply_polynomial(time_values, coefficient_cube.data, inargs.chunk, under)
         IN  IF r.error # "none"
             THEN /\ Raise([type |-> r.error, line |-> 66, names |-> {}])
                  /\ UNCHANGED <<drift_signal, new_cube>>
             ELSE /\ drift_signal' = r.value
                  /\ new_cube' = [name |-> data_cube.name,
                                  points |-> time_values,
                                  data |-> SubtractDrift(data_cube.data, r.value),
                                  dtype |-> result_dtype(data_cube.dtype),
                                  units |-> data_cube.units,
                                  attributes |-> data_cube.attributes,
                                  drift_removal |-> sanity_summary]
                  /\ IF EndsWithNc(inargs.outfile) \/ EndsWithSlash(inargs.outfile)
                     THEN pc' = "output" /\ UNCHANGED error
                     ELSE Raise([type |-> "AssertionError", line |-> 216, names |-> {}])
    /\ UNCHANGED <<callVars, compVars, inargs, data_files, coefficient_cube,
                   sanity_summary, time_diff, branch_time, fnum, data_cube, time_values,
                   new_cubelist, disk>>

(* lines 218-219 *)
AppendCube ==
    /\ pc = "output"
    /\ EndsWithNc(inargs.outfile)
    /\ new_cubelist' = Append(new_cubelist, new_cube)
    /\ fnum' = fnum + 1
    /\ pc' = "load"
    /\ UNCHANGED <<callVars, compVars, inargs, data_files, coefficient_cube,
                   sanity_summary, time_diff, branch_time, data_cube, time_values,
                   drift_signal, new_cube, disk, error>>

(* lines 220-233 *)
SaveFile ==
    /\ pc = "output"
    /\ ~EndsWithNc(inargs.outfile) /\ EndsWithSlash(inargs.outfile)
    /\ IF new_cube.dtype = "float32"
       THEN /\ disk' = Append(disk, [path |-> <<inargs.outfile, data_cube.name>>,
                                     cube |-> new_cube])
            /\ new_cube' = [name |-> 0]
            /\ drift_signal' = <<>>
            /\ fnum' = fnum + 1
            /\ pc' = "load"
            /\ UNCHANGED error
       ELSE /\ Raise([type |-> "AssertionError", line |-> 229, names |-> {}])
            /\ UNCHANGED <<disk, new_cube, drift_signal, fnum>>
    /\ UNCHANGED <<callVars, compVars, inargs, data_files, coefficient_cube,
                   sanity_summary, time_diff, branch_time, data_cube, time_values,
                   new_cubelist>>

(* lines 236-246 in single-series mode: after the concatenation line 241   *)
(* reads data_cubelist, a name main never defines                          *)
ConcatenateAndSave ==
    /\ pc = "load"
    /\ fnum = data_files.n
    /\ EndsWithNc(inargs.outfile)
    /\ new_cubelist' = concatenate_cube(new_cubelist)
    /\ Raise([type |-> "NameError", line |-> 241, names |-> {}])
    /\ UNCHANGED <<callVars, compVars, inargs, data_files, coefficient_cube,
                   sanity_summary, time_diff, branch_time, fnum, data_cube, time_values,
                   drift_signal, new_cube, disk>>

(* line 236 in one-output-per-file mode: main returns *)
Finish ==
    /\ pc = "load"
    /\ fnum = data_files.n
    /\ ~EndsWithNc(inargs.outfile)
    /\ pc' = "done"
    /\ UNCHANGED <<callVars, compVars, inargs, data_files, coefficient_cube,
                   sanity_summary, time_diff, branch_time, fnum, data_cube, time_values,
                   drift_signal, new_cube, new_cubelist, disk, error>>

Next ==
    \/ SanityCheck
    \/ TimeAdjustment
    \/ LoadFile
    \/ CheckDataUnits
    \/ CheckAttributes
    \/ ConvertToAnnual
    \/ SyncTime
    \/ RemoveDrift
    \/ AppendCube
    \/ SaveFile
    \/ ConcatenateAndSave
    \/ Finish

Spec == Init /\ [][Next]_vars

(* C8: a run in single-series mode over files that are all processed       *)
(* completes and has written one series, the concatenation in file order   *)
(* of the corrected cubes that one-output-per-file mode writes one by one. *)
C8_SingleSeriesWritten ==
    (EndsWithNc(inargs.outfile) /\ fnum = data_files.n /\ pc \in {"done", "raised"}) =>
        /\ pc = "done"
        /\ Len(disk) = 1
        /\ disk[1].path = <<inargs.outfile>>
        /\ disk[1].cube.data = new_cubelist.data

(* C9: in one-output-per-file mode, when the processing of a file fails,   *)
(* the outputs of the files before it are on disk and no other, the run    *)
(* has not succeeded, and the failure reported names the file that failed. *)
C9_FailureInFile ==
    /\ pc = "raised"
    /\ EndsWithSlash(inargs.outfile)
    /\ error.line \in {66, 79, 84, 93, 175, 177, 229}

C9_FailureStopsAndNamesFile ==
    C9_FailureInFile =>
        /\ Len(disk) = fnum
        /\ \A k \in 1..fnum : disk[k].path = <<inargs.outfile, k>>
        /\ error.type # "none"
        /\ ~ENABLED Next
        /\ data_cube.name \in error.names

-----------------------------------------------------------------------------
(* C11: time_diff is the first time value of the first file, converted to  *)
(* the unit of the coefficients, minus the branch time minus time_start of *)
(* the coefficients; the adjusted time of every step of every file is its  *)
(* converted time minus that one time_diff.                                *)
C11_TimeDiff ==
    (FilePoints(1)[1] + data_files.epoch) - data_files.branch_time
        - coefficient_cube.attributes.time_start

C11_TimeReconciliation ==
    /\ pc \in {"load", "check_units", "check_parent", "annual", "sync", "drift",
               "output", "done"} => time_diff = C11_TimeDiff
    /\ pc \in {"drift", "output"} =>
          /\ Len(time_values) = Len(data_cube.points)
          /\ \A t \in 1..Len(time_values) :
                time_values[t] = (data_cube.points[t] + data_files.epoch) - C11_TimeDiff

C11_Witness ==
    /\ pc = "drift" /\ fnum = 1
    /\ data_files.epoch # 0 /\ data_files.branch_time # 0
    /\ coefficient_cube.attributes.time_start # 0
    /\ Len(time_values) > 0

(* C12: unless the caller skips the check, a file whose parent experiment  *)
(* is neither that of the coefficients nor N/A, or whose parent rip is     *)
(* neither the rip of the coefficients nor N/A, fails there and gets no    *)
(* output; when the caller skips the check no file fails on its parents.   *)
C12_Mismatch ==
    \/ data_cube.attributes.parent_experiment_id
          \notin {coefficient_cube.attributes.experiment_id, "N/A"}
    \/ data_cube.attributes.parent_experiment_rip
          \notin {RipString(coefficient_cube.attributes.realization,
                            coefficient_cube.attributes.initialization_method,
                            coefficient_cube.attributes.physics_version), "N/A"}

C12_ParentCheck ==
    /\ (pc \in {"annual", "sync", "drift", "output"} /\ ~inargs.no_parent_check)
          => ~C12_Mismatch
    /\ (pc = "raised" /\ error.line \in {79, 84}) =>
          /\ ~inargs.no_parent_check
          /\ C12_Mismatch
          /\ \A k \in 1..Len(disk) : disk[k].path # <<inargs.outfile, data_cube.name>>
          /\ ~ENABLED Next
    /\ inargs.no_parent_check => error.line \notin {79, 84}

C12_Witness ==
    /\ pc = "raised" /\ error.line = 84
    /\ fnum = 1 /\ Len(disk) = 1
    /\ data_cube.attributes.parent_experiment_id = "piControl"

-----------------------------------------------------------------------------
(* calc_composite.py: main.  inargs.limit is what argparse leaves for      *)
(* --limit (type=float, nargs='*', default=1.0, line 111): the list of the *)
(* values supplied, or the float 1.0 when the option is absent.            *)

MaxLimits == 3

LimitVals == {-1, 1, 2}

Bounds == {"upper", "lower", "between"}

Limits ==
    {[kind |-> "list", items |-> l] : l \in SeqsUpTo(LimitVals, MaxLimits)}
        \cup {[kind |-> "float", items |-> <<1>>]}

IndexData == <<-2, -1, 0, 1, 2>>

(* lines 34-39 without the assertion of line 35 *)
select_limit_unchecked(bound, limit) ==
    IF limit.kind = "float"
    THEN [error |-> "TypeError", line |-> 37, limit |-> <<>>]
    ELSE IF bound = "between"
    THEN IF Len(limit.items) < 2
         THEN [error |-> "IndexError", line |-> 37, limit |-> <<>>]
         ELSE [error |-> "none", line |-> 37,
               limit |-> <<limit.items[1], limit.items[2]>>]
    ELSE IF Len(limit.items) = 0
    THEN [error |-> "IndexError", line |-> 39, limit |-> <<>>]
    ELSE [error |-> "none", line |-> 39, limit |-> <<limit.items[1]>>]

(* lines 34-39: len() and [0] of the default float raise TypeError, [0] of *)
(* an empty list raises IndexError                                         *)
select_limit(bound, limit) ==
    IF bound = "between"
    THEN IF limit.kind = "float"
         THEN [error |-> "TypeError", line |-> 35, limit |-> <<>>]
         ELSE IF Len(limit.items) # 2
         THEN [error |-> "AssertionError", line |-> 35, limit |-> <<>>]
         ELSE [error |-> "none", line |-> 37,
               limit |-> <<limit.items[1], limit.items[2]>>]
    ELSE IF limit.kind = "float"
         THEN [error |-> "TypeError", line |-> 39, limit |-> <<>>]
         ELSE IF Len(limit.items) = 0
         THEN [error |-> "IndexError", line |-> 39, limit |-> <<>>]
         ELSE [error |-> "none", line |-> 39, limit |-> <<limit.items[1]>>]

(* InputData.temporal_composite (lines 43-45): the time steps whose index  *)
(* value meets the bound                                                   *)
temporal_composite(index, limit, bound) ==
    {t \in 1..Len(index) :
        IF bound = "between" THEN limit[1] <= index[t] /\ index[t] <= limit[2]
        ELSE IF bound = "upper" THEN index[t] >= limit[1]
        ELSE index[t] <= limit[1]}

(* lines 52-56 *)
calc_composite_pval_atts ==
    [id |-> "p",
     history |-> "Standard independent two sample t-test",
     reference |-> "scipy.stats.ttest_ind(a, b, axis=t, equal_var=True)"]

InitCalcComposite ==
    /\ DriftIdle
    /\ CompIdle
    /\ args \in {[fn |-> "calc_composite.main", bound |-> b, limit |-> l]
                  : b \in Bounds, l \in Limits}
    /\ result = [state |-> "none"]

(* lines 34-39 *)
SelectLimit ==
    /\ args.fn = "calc_composite.main"
    /\ result.state = "none"
    /\ LET r == select_limit(args.bound, args.limit)
       IN  result' = IF r.error = "none"
                     THEN [state |-> "limit", limit |-> r.limit]
                     ELSE [state |-> "raised", error |-> r.error, line |-> r.line]
    /\ UNCHANGED <<args, compVars, driftVars>>

(* lines 43-45 *)
TemporalComposite ==
    /\ args.fn = "calc_composite.main"
    /\ result.state = "limit"
    /\ result' = [state |-> "composite", limit |-> result.limit,
                  composite |-> temporal_composite(IndexData, result.limit, args.bound)]
    /\ UNCHANGED <<args, compVars, driftVars>>

(* lines 47-72 *)
WriteNetcdf ==
    /\ args.fn = "calc_composite.main"
    /\ result.state = "composite"
    /\ result' = [state |-> "written", limit |-> result.limit,
                  outdata_list |-> <<result.composite, "p_val">>,
                  outvar_atts_list |-> <<"composite_atts", calc_composite_pval_atts>>]
    /\ UNCHANGED <<args, compVars, driftVars>>

NextCalcComposite ==
    \/ SelectLimit
    \/ TemporalComposite
    \/ WriteNetcdf

SpecCalcComposite == InitCalcComposite /\ [][NextCalcComposite]_vars

(* C13: with bound between, a composite is computed only when exactly two  *)
(* limits are supplied, and one or three supplied limits fail on the       *)
(* two-limits assertion before any composite is computed or written; with  *)
(* bound upper or lower a single supplied limit is accepted.               *)
C13_Supplied == IF args.limit.kind = "list" THEN Len(args.limit.items) ELSE -1

C13_BoundArity ==
    /\ (args.bound = "between" /\ result.state \in {"limit", "composite", "written"})
          => C13_Supplied = 2 /\ result.limit = args.limit.items
    /\ (args.bound = "between" /\ C13_Supplied \in {1, 3}) =>
          /\ result.state \in {"none", "raised"}
          /\ result.state = "raised" =>
                result.error = "AssertionError" /\ result.line = 35
    /\ (args.bound = "between" /\ C13_Supplied = 2) => result.state # "raised"
    /\ (args.bound \in {"upper", "lower"} /\ C13_Supplied = 1) =>
          /\ result.state # "raised"
          /\ result.state # "none" => result.limit = args.limit.items

C13_Witness ==
    /\ args.bound = "between" /\ C13_Supplied = 3
    /\ result.state = "raised" /\ result.error = "AssertionError"

-----------------------------------------------------------------------------
(* C14: a threshold string that names a percentile resolves, without       *)
(* error, to that percentile of the sample along the time axis, separately *)
(* for each grid point, and any other string to its literal value.         *)
C14_Column(s) == [t \in 1..Len(var_indata) |-> var_indata[t][s]]

(* v is a q-th percentile of the column: at most q percent of the values   *)
(* lie below it and at most 100 - q percent above it                       *)
C14_IsPercentile(v, column, q) ==
    /\ 100 * Cardinality({t \in 1..Len(column) : column[t] < v}) <= q * Len(column)
    /\ 100 * Cardinality({t \in 1..Len(column) : column[t] > v})
          <= (100 - q) * Len(column)

C14_ThresholdResolves ==
    (comp_pc \notin {"season", "threshold"} /\ var_indata # <<>>) =>
        /\ threshold # <<>>
        /\ \A t \in 1..Len(threshold) : \A s \in 1..Len(threshold[t]) :
              IF HasPct(comp_inargs.threshold)
              THEN C14_IsPercentile(threshold[t][s], C14_Column(s),
                                    ParseFloat(comp_inargs.threshold))
              ELSE threshold[t][s] = ParseFloat(comp_inargs.threshold)

-----------------------------------------------------------------------------
(* C15: the attributes returned with the p-values record the size of the   *)
(* included and of the excluded sample, carry the disclaimer that          *)
(* autocorrelation and equality of the variances are not accounted for,    *)
(* and name the equal-variance two-sample t-test that was run.             *)
C15_TextAttributes == {"id", "standard_name", "long_name", "units", "reference"}

C15_NamesEqualVariance(reference) ==
    reference = "scipy.stats.ttest_ind(a, b, axis=t, equal_var=True)"

C15_SignificanceProvenance ==
    result.state = "returned" =>
        /\ result.pval_atts.history = <<args.size_included, args.size_excluded>>
        /\ \E k \in C15_TextAttributes : result.pval_atts[k] = SignificanceWarning
        /\ C15_NamesEqualVariance(result.pval_atts.reference) = result.equal_var

-----------------------------------------------------------------------------
(* C16: a validation that returns leaves, at every grid point whose a is   *)
(* unmasked and in range, each of the four coefficients masked or unmasked *)
(* as it was before.  (The validator assigns only the mask, line 136; the  *)
(* coefficient values are not written.)                                    *)
C16_ValidatorFrame ==
    result.state = "returned" =>
        \A s \in 1..Len(args.coefficient_data.data[1]) :
            (~OutOfRange(args.coefficient_data.data[1][s], args.variable)
                /\ ~args.coefficient_data.mask[1][s]) =>
                    \A k \in 1..4 : result.mask[k][s] = args.coefficient_data.mask[k][s]

-----------------------------------------------------------------------------
(* C17: with a variable other than sea_water_potential_temperature and     *)
(* sea_water_salinity the validation fails on its first statement: the     *)
(* coefficients and their mask are left as they were, no summary is        *)
(* produced, and the run reads and writes no file of the loop.             *)
C17_Unsupported ==
    inargs.var \notin {"sea_water_potential_temperature", "sea_water_salinity"}

C17_UnsupportedVariableFails ==
    /\ [](C17_Unsupported =>
            /\ pc \in {"sanity", "raised"}
            /\ pc = "raised" => error.type = "AssertionError" /\ error.line = 106
            /\ sanity_summary = <<>>
            /\ fnum = 0 /\ data_cube = [name |-> 0]
            /\ new_cubelist = <<>> /\ disk = <<>>)
    /\ [][C17_Unsupported => coefficient_cube' = coefficient_cube]_vars

C17_Witness ==
    /\ C17_Unsupported
    /\ pc = "raised" /\ error.line = 106
    /\ coefficient_cube.data.mask[2][1]

-----------------------------------------------------------------------------
(* C18: in a monthly run that passes the alignment check, the polynomial   *)
(* is evaluated at time 0 for the first step of the first file, whatever   *)
(* the branch time and time_start, so that the drift signal there is zero  *)
(* and the corrected value is the raw value.                               *)
C18_NoOpAtBranchPoint ==
    (~inargs.annual /\ data_cube.name = 1) =>
        /\ pc \in {"drift", "output"} => time_values[1] = 0
        /\ pc = "output" =>
              \A s \in 1..Len(new_cube.data[1]) :
                  ~new_cube.data[1][s].mask =>
                      /\ drift_signal[1][s].val = 0
                      /\ new_cube.data[1][s].val = data_cube.data[1][s].val

-----------------------------------------------------------------------------
(* C19: every output on disk was written after the coefficient sanity      *)
(* check succeeded and the first file passed the start time check, and     *)
(* after its own file passed the unit check and, unless skipped, the       *)
(* parent check; a run that fails in the validation or in the start time   *)
(* check has written nothing.                                              *)
C19_Aligned(first_time) ==
    LET d == first_time - (coefficient_cube.attributes.time_start
                             + data_files.branch_time)
    IN  IF inargs.annual THEN 100 < d /\ d < 200 ELSE d = 0

C19_ChecksBeforeOutput ==
    /\ disk # <<>> =>
          /\ sanity_summary # <<>>
          /\ C19_Aligned(disk[1].cube.points[1])
    /\ \A k \in 1..Len(disk) :
          /\ disk[k].cube.drift_removal = sanity_summary
          /\ disk[k].cube.units = coefficient_cube.units
          /\ ~inargs.no_parent_check =>
                /\ disk[k].cube.attributes.parent_experiment_id
                      \in {coefficient_cube.attributes.experiment_id, "N/A"}
                /\ disk[k].cube.attributes.parent_experiment_rip
                      \in {RipString(coefficient_cube.attributes.realization,
                                     coefficient_cube.attributes.initialization_method,
                                     coefficient_cube.attributes.physics_version), "N/A"}
    /\ (pc = "raised" /\ error.line \in {106, 133, 138, 175, 177}) => disk = <<>>

C19_Witness ==
    /\ Len(disk) = 2
    /\ ~inargs.no_parent_check /\ inargs.annual

-----------------------------------------------------------------------------
(* C20: with a sample of more than one grid point, the metric expanded to  *)
(* the shape of the sample (line 70) holds at every position (t, s) the    *)
(* metric of time step t, in both masked metric arrays.                    *)
C20_MetricBroadcast ==
    (metric_data_included # <<>> /\ Len(var_indata[1]) > 1) =>
        \A t \in 1..Len(var_indata) : \A s \in 1..Len(var_indata[t]) :
            /\ metric_data_included[t][s].val = metric_indata[t]
            /\ metric_data_excluded[t][s].val = metric_indata[t]

====
